---- MODULE Spec2Model ----
(***************************************************************************)
(* State-machine model of the training / inference core of the student     *)
(* performance prediction backend (backend/app/ml/predictor.py,            *)
(* backend/app/ml/train.py) and of the transport handlers of               *)
(* backend/app/main.py that read or write the two persisted artifacts.     *)
(*                                                                         *)
(* Numbers are fixed point.  Probabilities and thresholds are in           *)
(* thousandths (0.6 is 600), feature values are in points (0..100) and     *)
(* log-odds are in half units (a log-odds of 1.5 is 3).                    *)
(***************************************************************************)
EXTENDS Integers, Sequences, FiniteSets, TLC

VARIABLES
    env,        \* the PRED_THRESHOLD environment variable
    modelFile,  \* the model artifact at MODEL_PATH
    metaFile,   \* the metadata document at METADATA_PATH
    predictor,  \* a constructed Predictor object (model, metadata, threshold)
    resp,       \* what the last call returned or raised
    inflight    \* where a retrain and a set_threshold that run step by step are

vars == <<env, modelFile, metaFile, predictor, resp, inflight>>

-----------------------------------------------------------------------------
(* Bounds of the model *)

MaxBatch == 2       \* longest list handed to predict_batch
MaxRows == 11       \* most rows handed to a training call

-----------------------------------------------------------------------------
(* Program constants *)

FEATURES == <<"attendance", "marks", "internal_score">>

ProbOne == 1000               \* the probability 1.0, in thousandths
DefaultThreshold == 600       \* 0.6
BoundsMin == 0                \* BOUNDS[name]["min"]
BoundsMax == 100              \* BOUNDS[name]["max"]
MinSamples == 10              \* fewest labeled rows a training call accepts
LogitClamp == 28              \* log(p/(1-p)) at p = 1 - 1e-6, in half units

-----------------------------------------------------------------------------
(* Python and JSON values *)

None == [t |-> "none"]
Num(n) == [t |-> "num", v |-> n]
Str(s) == [t |-> "str", s |-> s]
\* a JSON integer literal too large for a double, e.g. 1 followed by 400 zeros
BigInt == [t |-> "bigint"]

Ok(v) == [ok |-> TRUE, value |-> v]
Raise(kind) == [ok |-> FALSE, error |-> kind]

Get(doc, key, default) == IF key \in DOMAIN doc THEN doc[key] ELSE default

\* float(s) for the strings the model uses; anything else is a ValueError
FloatOfStr(s) ==
    CASE s = "0"     -> Ok(0)
      [] s = "0.3"   -> Ok(300)
      [] s = "3e-1"  -> Ok(300)
      [] s = "0.5"   -> Ok(500)
      [] s = "0.75"  -> Ok(750)
      [] s = "1"     -> Ok(1000)
      [] s = "1.5"   -> Ok(1500)
      [] s = "-0.2"  -> Ok(-200)
      [] OTHER       -> Raise("ValueError")

\* float(x) for a Python value: int and float convert, a huge int overflows,
\* a string is parsed, None is a TypeError
FloatOf(x) ==
    CASE x.t = "num"    -> Ok(x.v)
      [] x.t = "bigint" -> Raise("OverflowError")
      [] x.t = "str"    -> FloatOfStr(x.s)
      [] OTHER          -> Raise("TypeError")

\* isinstance(x, (float, int))
IsNumber(x) == x.t \in {"num", "bigint"}

-----------------------------------------------------------------------------
(* The environment variable and the metadata document *)

NoEnv == [set |-> FALSE, s |-> ""]
EnvStr(s) == [set |-> TRUE, s |-> s]

Absent == [kind |-> "absent"]
Malformed == [kind |-> "malformed"]          \* a file that is not JSON
NonDict == [kind |-> "json", isdict |-> FALSE]  \* JSON, but not an object
JsonFile(doc) == [kind |-> "json", isdict |-> TRUE, doc |-> doc]

\* the Python object json.load gives for a parseable file
Loaded(file) ==
    IF file.isdict THEN [isdict |-> TRUE, doc |-> file.doc] ELSE [isdict |-> FALSE]
EmptyMetadata == [isdict |-> TRUE, doc |-> <<>>]

\* self.metadata.get(key) if isinstance(self.metadata, dict) else None
MetaGet(metadata, key) ==
    IF metadata.isdict THEN Get(metadata.doc, key, None) ELSE None

\* a faulty variant of ResolveAfterEnv, kept for comparison, that prefers the recommendation to the override
ResolveAfterEnvRecFirst(metadata) ==
    LET user_defined == MetaGet(metadata, "user_threshold")
        recommended == MetaGet(metadata, "recommended_threshold")
    IN  IF IsNumber(recommended) /\ ~FloatOf(recommended).ok
        THEN FloatOf(recommended)
        ELSE IF IsNumber(recommended) /\ 0 < recommended.v /\ recommended.v < ProbOne
        THEN Ok(recommended.v)
        ELSE IF IsNumber(user_defined) /\ ~FloatOf(user_defined).ok
        THEN FloatOf(user_defined)
        ELSE IF IsNumber(user_defined) /\ 0 < user_defined.v /\ user_defined.v < ProbOne
        THEN Ok(user_defined.v)
        ELSE Ok(DefaultThreshold)

\* Predictor._resolve_threshold, from the user_threshold lookup on
ResolveAfterEnv(metadata) ==
    LET user_defined == MetaGet(metadata, "user_threshold")
        recommended == MetaGet(metadata, "recommended_threshold")
    IN  IF IsNumber(user_defined) /\ ~FloatOf(user_defined).ok
        THEN FloatOf(user_defined)
        ELSE IF IsNumber(user_defined) /\ 0 < user_defined.v /\ user_defined.v < ProbOne
        THEN Ok(user_defined.v)
        ELSE IF IsNumber(recommended) /\ ~FloatOf(recommended).ok
        THEN FloatOf(recommended)
        ELSE IF IsNumber(recommended) /\ 0 < recommended.v /\ recommended.v < ProbOne
        THEN Ok(recommended.v)
        ELSE Ok(DefaultThreshold)

\* the PRED_THRESHOLD branch: the value when it is set, parses and is in (0,1)
EnvThreshold(envv) ==
    IF envv.set /\ envv.s # ""
    THEN LET f == FloatOfStr(envv.s)
         IN  IF f.ok /\ 0 < f.value /\ f.value < ProbOne THEN f ELSE Raise("ignored")
    ELSE Raise("unset")

\* Predictor._resolve_threshold
ResolveThreshold(envv, metadata) ==
    IF EnvThreshold(envv).ok THEN EnvThreshold(envv) ELSE ResolveAfterEnv(metadata)

-----------------------------------------------------------------------------
(* Arithmetic helpers *)

Min(a, b) == IF a <= b THEN a ELSE b
Max(a, b) == IF a >= b THEN a ELSE b
Abs(a) == IF a < 0 THEN -a ELSE a

\* a < b for two tuples of integers of the same length, as Python orders tuples
LexLess(a, b) ==
    \E k \in 1..Len(a) : a[k] < b[k] /\ \A j \in 1..(k - 1) : a[j] = b[j]

\* list.sort(key=...) / sorted(key=...): ascending in keys[i], equal keys keep
\* their order (the sort is stable)
StableSort(seq, keys) ==
    LET n == Len(seq)
        Before(j, i) == LexLess(keys[j], keys[i]) \/ (keys[j] = keys[i] /\ j < i)
        Rank(i) == Cardinality({j \in 1..n : Before(j, i)}) + 1
    IN  [r \in 1..n |-> seq[CHOOSE i \in 1..n : Rank(i) = r]]

\* 1000 / (1 + exp(-z/2)) rounded, for z = -28 .. 28
SigmoidTable ==
    <<0, 0, 0, 0, 0, 0, 0, 0, 0, 0, 0, 0, 0, 1, 1, 2, 2, 4, 7, 11, 18, 29, 47,
      76, 119, 182, 269, 378, 500, 622, 731, 818, 881, 924, 953, 971, 982, 989,
      993, 996, 998, 998, 999, 999, 1000, 1000, 1000, 1000, 1000, 1000, 1000,
      1000, 1000, 1000, 1000, 1000, 1000>>

\* Predictor._sigmoid: beyond +-14 the double rounds to the table's end values
Sigmoid(z) ==
    IF z < -LogitClamp THEN 0
    ELSE IF z > LogitClamp THEN ProbOne
    ELSE SigmoidTable[z + LogitClamp + 1]

\* Predictor._logit: p is clamped to [1e-6, 1 - 1e-6], then log(p / (1 - p))
Logit(p) ==
    IF p <= 0 THEN -LogitClamp
    ELSE IF p >= ProbOne THEN LogitClamp
    ELSE CHOOSE z \in (-LogitClamp)..LogitClamp :
            /\ Sigmoid(z) <= p
            /\ (z = LogitClamp \/ Sigmoid(z + 1) > p)

-----------------------------------------------------------------------------
(* The fitted model artifact *)

\* model.predict_proba(x)[0][1]: the calibrated classifier is a logistic
\* function of the standardized features
PredictProba(model, x) ==
    LET term(i) == (model.coef[i] * (x[i] - model.mean[i])) \div model.scale[i]
    IN  Sigmoid(model.intercept + term(1) + term(2) + term(3))

-----------------------------------------------------------------------------
(* Validation *)

NoItem == [t |-> "none"]

InvalidInput(name, reason) ==
    [ok |-> FALSE, error |-> "InvalidInput", field |-> name, reason |-> reason,
     item |-> NoItem]

\* Predictor._validate_range
ValidateRange(name, value) ==
    IF value.t = "none" THEN InvalidInput(name, "required")
    ELSE LET f == FloatOf(value)
         IN  IF ~f.ok
             THEN IF f.error \in {"TypeError", "ValueError"}
                  THEN InvalidInput(name, "must be a number")
                  ELSE f
             ELSE IF ~(BoundsMin <= f.value /\ f.value <= BoundsMax)
                  THEN InvalidInput(name, "out of range")
                  ELSE f

\* the three feature validations of predict and predict_batch, in source
\* order: the first failure is what is raised
ValidateFeatures(attendance, marks, internal_score) ==
    LET a == ValidateRange("attendance", attendance)
        m == ValidateRange("marks", marks)
        i == ValidateRange("internal_score", internal_score)
    IN  IF ~a.ok THEN a
        ELSE IF ~m.ok THEN m
        ELSE IF ~i.ok THEN i
        ELSE Ok(<<a.value, m.value, i.value>>)

\* Predictor._collect_suspicion_markers; features is <<attendance, marks,
\* internal_score>>, the validated floats, and final_exam_score is the value
\* the caller passed (the float _validate_range made of it is dropped), so
\* "final_exam_score < 20" is a TypeError when the caller passed a string
CollectSuspicionMarkers(features, final_exam_score) ==
    IF final_exam_score.t = "str" THEN Raise("TypeError")
    ELSE Ok(
        (IF features[2] = 0 /\ features[3] >= 60
         THEN <<"zero_marks_high_internal">> ELSE <<>>)
        \o (IF features[1] < 40 /\ features[2] >= 80
            THEN <<"low_attendance_high_marks">> ELSE <<>>)
        \o (IF final_exam_score.t # "none" /\ final_exam_score.v < 20 /\ features[2] >= 70
            THEN <<"low_final_high_marks">> ELSE <<>>))

-----------------------------------------------------------------------------
(* Explanation *)

FeatureSet == {FEATURES[i] : i \in 1..Len(FEATURES)}
FeatureIdx(f) == CHOOSE i \in 1..Len(FEATURES) : FEATURES[i] = f

\* self.metadata.get(key, default) if isinstance(self.metadata, dict) else default
MetaGetOr(metadata, key, default) ==
    IF metadata.isdict THEN Get(metadata.doc, key, default) ELSE default

\* scaler.get("scale", [1.0, 1.0, 1.0]) and scaler.get("mean", [0.0, 0.0, 0.0])
ScalerScale(metadata) == Get(MetaGetOr(metadata, "scaler", <<>>), "scale", <<1, 1, 1>>)
ScalerMean(metadata) == Get(MetaGetOr(metadata, "scaler", <<>>), "mean", <<0, 0, 0>>)

\* Predictor._standardize: (raw - mean) / scale with a scale of 0 read as 1,
\* kept as numerator and denominator
Standardize(metadata, raw) ==
    [i \in 1..Len(FEATURES) |->
        [num |-> raw[i] - ScalerMean(metadata)[i],
         den |-> IF ScalerScale(metadata)[i] = 0 THEN 1 ELSE ScalerScale(metadata)[i]]]

\* a faulty variant of DeriveTopReasons, kept for comparison, that lists the features in their fixed order
DeriveTopReasonsUnranked(contributions) ==
    [k \in 1..Len(FEATURES) |->
        [feature |-> FEATURES[k],
         effect |-> IF contributions[FEATURES[k]] > 0 THEN "increase"
                    ELSE IF contributions[FEATURES[k]] < 0 THEN "decrease" ELSE "neutral",
         contribution |-> contributions[FEATURES[k]]]]

\* Predictor._derive_top_reasons
DeriveTopReasons(contributions) ==
    LET items == [i \in 1..Len(FEATURES) |->
                    [feature |-> FEATURES[i], value |-> contributions[FEATURES[i]]]]
        ranked == StableSort(items, [i \in 1..Len(items) |-> <<-Abs(items[i].value)>>])
    IN  [k \in 1..Min(3, Len(ranked)) |->
            [feature |-> ranked[k].feature,
             effect |-> IF ranked[k].value > 0 THEN "increase"
                        ELSE IF ranked[k].value < 0 THEN "decrease" ELSE "neutral",
             contribution |-> ranked[k].value]]

\* Predictor._build_explanation
BuildExplanation(metadata, raw) ==
    LET coefficients == MetaGetOr(metadata, "coefficients", <<>>)
        permutation_importance == MetaGet(metadata, "permutation_importance")
        standardized == Standardize(metadata, raw)
        contributions ==
            [f \in FeatureSet |->
                (standardized[FeatureIdx(f)].num * Get(coefficients, f, 0))
                    \div standardized[FeatureIdx(f)].den]
    IN  [top_reasons |-> DeriveTopReasons(contributions),
         feature_importances |->
            IF permutation_importance # None /\ permutation_importance # <<>>
            THEN permutation_importance
            ELSE [f \in FeatureSet |-> Abs(contributions[f])],
         coefficients |-> coefficients]

-----------------------------------------------------------------------------
(* Feedback *)

\* max_increase in Predictor._compute_feedback
MaxIncrease(feature) ==
    CASE feature = "attendance" -> 10
      [] feature = "marks" -> 15
      [] feature = "internal_score" -> 10

\* a faulty variant of DeltaValue, kept for comparison, that forgets the ceiling of 100
DeltaValueUncapped(feature, current_value) == MaxIncrease(feature)

\* the suggested increase of one feature: min(cap, 100.0 - current_value)
DeltaValue(feature, current_value) == Min(MaxIncrease(feature), 100 - current_value)

\* a faulty variant of Gain, kept for comparison, that does not floor the difference at 0
GainSigned(new_prob, base_prob) == new_prob - base_prob

\* gain = max(0.0, new_prob - base_prob)
Gain(new_prob, base_prob) == Max(0, new_prob - base_prob)

\* the priority of a gain
Priority(gain) == IF gain < 5 THEN "low" ELSE IF gain < 100 THEN "medium" ELSE "high"

PriorityRank(priority) ==
    CASE priority = "high" -> 0 [] priority = "medium" -> 1 [] priority = "low" -> 2
      [] OTHER -> 3

\* the body of the loop of Predictor._compute_feedback for one feature
Suggestion(metadata, raw, base_prob, idx) ==
    LET feature == FEATURES[idx]
        current_value == raw[idx]
        delta_value == DeltaValue(feature, current_value)
        coef == Get(MetaGetOr(metadata, "coefficients", <<>>), feature, 0)
        scales == ScalerScale(metadata)
        scale == IF Len(scales) >= idx THEN scales[idx] ELSE 1
        delta_log_odds == (coef * delta_value) \div (IF scale # 0 THEN scale ELSE 1)
        new_prob == Sigmoid(Logit(base_prob) + delta_log_odds)
        gain == Gain(new_prob, base_prob)
    IN  [feature |-> feature,
         current_value |-> current_value,
         delta_value |-> delta_value,
         estimated_probability_gain |-> gain,
         new_probability_estimate |-> new_prob,
         priority |-> Priority(gain)]

\* whether the loop keeps the feature: "if delta_value <= 0: continue"
Suggested(feature, current_value) == ~(DeltaValue(feature, current_value) <= 0)

\* seq with the elements at the indices in keep, in order
RECURSIVE SelectIdx(_, _, _)
SelectIdx(f, keep, n) ==
    IF n = 0 THEN <<>>
    ELSE SelectIdx(f, keep, n - 1) \o (IF n \in keep THEN <<f[n]>> ELSE <<>>)

\* a faulty variant of ComputeFeedback, kept for comparison, that returns the suggestions in feature order
ComputeFeedbackUnsorted(metadata, raw, base_prob) ==
    SelectIdx([i \in 1..Len(FEATURES) |-> Suggestion(metadata, raw, base_prob, i)],
              {i \in 1..Len(FEATURES) : Suggested(FEATURES[i], raw[i])},
              Len(FEATURES))

\* Predictor._compute_feedback
ComputeFeedback(metadata, raw, base_prob) ==
    LET all == [i \in 1..Len(FEATURES) |-> Suggestion(metadata, raw, base_prob, i)]
        keep == {i \in 1..Len(FEATURES) : Suggested(FEATURES[i], raw[i])}
        suggestions == SelectIdx(all, keep, Len(FEATURES))
    IN  StableSort(suggestions,
            [i \in 1..Len(suggestions) |->
                <<PriorityRank(suggestions[i].priority),
                  -suggestions[i].estimated_probability_gain>>])

\* Predictor._build_feedback_paragraph, as the parts the template is filled with
BuildFeedbackParagraph(features, proba, passed, suggestions, suspicion_notes) ==
    [status |-> IF passed THEN "pass" ELSE "fail",
     proba |-> proba,
     low_attendance |-> features[1] < 60,
     low_marks |-> features[2] < 60,
     low_internal_score |-> features[3] < 60,
     next_step |-> IF suggestions # <<>> THEN <<suggestions[1]>> ELSE <<>>,
     unusual |-> suspicion_notes # <<>>]

-----------------------------------------------------------------------------
(* The Predictor *)

NoModel == [exists |-> FALSE]
NoPredictor == [loaded |-> FALSE]

\* a faulty variant of NewPredictor, kept for comparison, that refuses to load without a metadata document
NewPredictorNeedsMetadata(envv, mfile, metafile) ==
    IF ~mfile.exists \/ metafile.kind = "absent" THEN Raise("FileNotFoundError")
    ELSE IF metafile.kind = "malformed" THEN Raise("JSONDecodeError")
    ELSE LET threshold == ResolveThreshold(envv, Loaded(metafile))
         IN  IF ~threshold.ok THEN threshold
             ELSE Ok([loaded |-> TRUE, model |-> mfile, metadata |-> Loaded(metafile),
                      threshold |-> threshold.value])

\* Predictor.__init__ and Predictor._load_model_and_metadata
NewPredictor(envv, mfile, metafile) ==
    IF ~mfile.exists THEN Raise("FileNotFoundError")
    ELSE IF metafile.kind = "malformed" THEN Raise("JSONDecodeError")
    ELSE LET metadata == IF metafile.kind = "absent" THEN EmptyMetadata
                         ELSE Loaded(metafile)
             threshold == ResolveThreshold(envv, metadata)
         IN  IF ~threshold.ok THEN threshold
             ELSE Ok([loaded |-> TRUE, model |-> mfile, metadata |-> metadata,
                      threshold |-> threshold.value])

\* a faulty variant of Label, kept for comparison, that passes only above the threshold
LabelStrict(proba, threshold) == IF proba > threshold THEN 1 ELSE 0

\* int(proba >= self.threshold)
Label(proba, threshold) == IF proba >= threshold THEN 1 ELSE 0

\* Predictor.predict once the inputs are validated
PredictValid(p, features, final_exam_score) ==
    LET suspicion_notes == CollectSuspicionMarkers(features, final_exam_score).value
        proba == PredictProba(p.model, features)
        prediction == Label(proba, p.threshold)
        feedback == ComputeFeedback(p.metadata, features, proba)
    IN  [ok |-> TRUE,
         model_calls |-> 1,
         predicted_result |-> prediction,
         probability |-> proba,
         threshold_used |-> p.threshold,
         suspicious_input |-> suspicion_notes # <<>>,
         explanation |-> BuildExplanation(p.metadata, features),
         feedback |-> feedback,
         feedback_paragraph |->
            BuildFeedbackParagraph(features, proba, prediction = 1, feedback,
                                   suspicion_notes)]
        @@ (IF suspicion_notes # <<>>
            THEN [suspicious_reasons |-> suspicion_notes, notes |-> "inconsistent"]
            ELSE <<>>)
        @@ (IF final_exam_score.t # "none"
            THEN [final_exam_score |-> final_exam_score.v]
            ELSE <<>>)

\* a faulty variant of Predict, kept for comparison, that validates final_exam_score before the features
PredictFinalFirst(p, attendance, marks, internal_score, final_exam_score) ==
    LET features == ValidateFeatures(attendance, marks, internal_score)
        final == IF final_exam_score.t # "none"
                 THEN ValidateRange("final_exam_score", final_exam_score)
                 ELSE Ok(0)
    IN  IF ~final.ok THEN final @@ [model_calls |-> 0]
        ELSE IF ~features.ok THEN features @@ [model_calls |-> 0]
        ELSE IF ~CollectSuspicionMarkers(features.value, final_exam_score).ok
        THEN CollectSuspicionMarkers(features.value, final_exam_score)
                @@ [model_calls |-> 0]
        ELSE PredictValid(p, features.value, final_exam_score)

\* Predictor.predict
Predict(p, attendance, marks, internal_score, final_exam_score) ==
    LET features == ValidateFeatures(attendance, marks, internal_score)
        final == IF final_exam_score.t # "none"
                 THEN ValidateRange("final_exam_score", final_exam_score)
                 ELSE Ok(0)
    IN  IF ~features.ok THEN features @@ [model_calls |-> 0]
        ELSE IF ~final.ok THEN final @@ [model_calls |-> 0]
        ELSE IF ~CollectSuspicionMarkers(features.value, final_exam_score).ok
        THEN CollectSuspicionMarkers(features.value, final_exam_score)
                @@ [model_calls |-> 0]
        ELSE PredictValid(p, features.value, final_exam_score)

\* one item in the first loop of predict_batch: a feature failure is
\* re-raised with the item in its message, a final_exam_score failure is
\* raised as _validate_range raised it, and so is a failure of the suspicion
\* rules
ValidateItem(item) ==
    LET features == ValidateFeatures(item.attendance, item.marks, item.internal_score)
        final == IF item.final_exam_score.t # "none"
                 THEN ValidateRange("final_exam_score", item.final_exam_score)
                 ELSE Ok(0)
    IN  IF ~features.ok
        THEN IF features.error = "InvalidInput"
             THEN [features EXCEPT !.item = item] ELSE features
        ELSE IF ~final.ok THEN final
        ELSE IF ~CollectSuspicionMarkers(features.value, item.final_exam_score).ok
        THEN CollectSuspicionMarkers(features.value, item.final_exam_score)
        ELSE features

\* one element of the result list of predict_batch
BatchResult(p, item, features) ==
    LET notes == CollectSuspicionMarkers(features, item.final_exam_score).value
        proba == PredictProba(p.model, features)
    IN  [student_id |-> item.student_id,
         course_id |-> item.course_id,
         predicted_result |-> Label(proba, p.threshold),
         probability |-> proba,
         threshold_used |-> p.threshold,
         suspicious_input |-> notes # <<>>,
         explanation |-> BuildExplanation(p.metadata, features)]
        @@ (IF notes # <<>> THEN [suspicious_reasons |-> notes] ELSE <<>>)

\* a faulty variant of PredictBatch, kept for comparison, that predicts item by item and hands back what
\* it had when it met the invalid item
PredictBatchPartial(p, data) ==
    LET bad == {i \in 1..Len(data) : ~ValidateItem(data[i]).ok}
        n == IF bad = {} THEN Len(data) ELSE (CHOOSE i \in bad : \A j \in bad : i <= j) - 1
        results == [i \in 1..n |-> BatchResult(p, data[i], ValidateItem(data[i]).value)]
    IN  IF bad # {}
        THEN ValidateItem(data[n + 1]) @@ [model_calls |-> n, results |-> results]
        ELSE IF data = <<>> THEN Raise("ValueError") @@ [model_calls |-> 1]
        ELSE [ok |-> TRUE, model_calls |-> n, results |-> results]

\* Predictor.predict_batch
PredictBatch(p, data) ==
    LET bad == {i \in 1..Len(data) : ~ValidateItem(data[i]).ok}
    IN  IF bad # {}
        THEN ValidateItem(data[CHOOSE i \in bad : \A j \in bad : i <= j])
                @@ [model_calls |-> 0]
        ELSE IF data = <<>>
        \* predict_proba refuses an array without rows
        THEN Raise("ValueError") @@ [model_calls |-> 1]
        ELSE [ok |-> TRUE,
              model_calls |-> 1,
              results |-> [i \in 1..Len(data) |->
                            BatchResult(p, data[i], ValidateItem(data[i]).value)]]

-----------------------------------------------------------------------------
(* Training *)

CvFolds == 5                  \* cv=5 of cross_validate and CalibratedClassifierCV
RecommendedFloor == 600       \* best_threshold = max(best_threshold, 0.6)

\* the rows left by df.dropna(subset=["result"]); rows counts the rows by
\* result (0, 1, missing).  A frame built from no rows has no "result" column
\* and dropna raises KeyError.
ToDataframeFromEnrollments(rows) ==
    IF rows.zero + rows.one + rows.null = 0 THEN Raise("KeyError")
    ELSE Ok([zero |-> rows.zero, one |-> rows.one])

\* a faulty variant of TrainingMetadata, kept for comparison, that recommends the F1-maximising threshold as it is
TrainingMetadataUnclamped(df, fit) ==
    [generated_at |-> Str("now"),
     feature_names |-> FEATURES,
     class_counts |-> [zero |-> df.zero, one |-> df.one],
     coefficients |-> fit.cv_coefficients,
     intercept |-> fit.cv_intercept,
     permutation_importance |-> fit.permutation_importance,
     recommended_threshold |-> Num(fit.best_threshold),
     scaler |-> [mean |-> fit.base.mean, scale |-> fit.base.scale]]

\* the metadata dict train_model builds from a fit
TrainingMetadata(df, fit) ==
    [generated_at |-> Str("now"),
     feature_names |-> FEATURES,
     class_counts |-> [zero |-> df.zero, one |-> df.one],
     coefficients |-> fit.cv_coefficients,
     intercept |-> fit.cv_intercept,
     permutation_importance |-> fit.permutation_importance,
     recommended_threshold |-> Num(Max(fit.best_threshold, RecommendedFloor)),
     scaler |-> [mean |-> fit.base.mean, scale |-> fit.base.scale]]

\* a faulty variant of SaveMetadata, kept for comparison, that keeps a document that is already there
SaveMetadataKeepsExisting(metafile, metadata) ==
    IF metafile.kind = "json" /\ metafile.isdict THEN metafile.doc ELSE metadata

\* a faulty variant of SaveMetadata, kept for comparison, that writes the new metadata as it is
SaveMetadataNoCarry(metafile, metadata) == metadata

\* _save_metadata: the document written (metadata is updated in place, so it
\* is also what train_model returns)
SaveMetadata(metafile, metadata) ==
    IF /\ metafile.kind = "json"
       /\ metafile.isdict
       /\ "user_threshold" \in DOMAIN metafile.doc
       /\ "user_threshold" \notin DOMAIN metadata
    THEN metadata @@ [user_threshold |-> metafile.doc.user_threshold]
    ELSE metadata

\* train_model on the labeled rows df with the fit the estimators produce;
\* gives what is raised, or what is returned and written
TrainModel(df, fit, metafile) ==
    IF df.zero = 0 \/ df.one = 0
    THEN Raise("ValueError") @@ [reason |-> "single class"]
    ELSE IF Min(df.zero, df.one) < CvFolds
    \* CalibratedClassifierCV refuses a class with fewer examples than folds
    THEN Raise("ValueError") @@ [reason |-> "calibration folds"]
    ELSE LET metadata == SaveMetadata(metafile, TrainingMetadata(df, fit))
         IN  [ok |-> TRUE, model |-> fit.model, metadata |-> metadata]

\* train_from_db
TrainFromDb(rows, fit, metafile) ==
    LET df == ToDataframeFromEnrollments(rows)
    IN  IF ~df.ok THEN df
        ELSE IF df.value.zero + df.value.one < MinSamples
        THEN Raise("ValueError")
                @@ [reason |-> "insufficient", count |-> df.value.zero + df.value.one]
        ELSE TrainModel(df.value, fit, metafile)

-----------------------------------------------------------------------------
(* Transport handlers *)

ADMIN_TOKEN == "changeme"

Http(status) == [ok |-> status = 200, status |-> status]

\* authorization.replace("Bearer ", "") for the header values the model uses
StripBearer(s) ==
    CASE s = "Bearer changeme" -> "changeme"
      [] s = "Bearer wrong" -> "wrong"
      [] s = "Bearer Bearer changeme" -> "changeme"   \* every occurrence goes
      [] OTHER -> s

\* verify_admin_token: TRUE when the dependency lets the request through
VerifyAdminToken(authorization) ==
    /\ authorization.t # "none"
    /\ authorization.s # ""
    /\ StripBearer(authorization.s) = ADMIN_TOKEN

\* crud.get_training_data: the rows with every field present
GetTrainingData(rows) == [zero |-> rows.zero, one |-> rows.one, null |-> 0]

\* retrain: the response, and the trained result when there is one
Retrain(authorization, rows, fit, metafile) ==
    LET enrollments == GetTrainingData(rows)
        n == enrollments.zero + enrollments.one
        trained == TrainFromDb(enrollments, fit, metafile)
    IN  IF ~VerifyAdminToken(authorization) THEN Http(401)
        ELSE IF n < MinSamples
        THEN Http(400) @@ [reason |-> "insufficient", count |-> n]
        ELSE IF ~trained.ok
        THEN IF trained.error = "ValueError"
             THEN Http(400) @@ [reason |-> trained.reason]
             ELSE Http(500)
        ELSE Http(200)
                @@ [samples_used |-> n,
                    class_counts |-> trained.metadata.class_counts,
                    recommended_threshold |->
                        Get(trained.metadata, "recommended_threshold",
                            Num(DefaultThreshold)),
                    user_threshold |-> Get(trained.metadata, "user_threshold", None),
                    trained |-> trained]

\* a faulty variant of ResolveThresholdWithSource, kept for comparison, that lets the metadata override the environment
ResolveThresholdWithSourceMetadataFirst(envv, metafile) ==
    LET metadata == IF metafile.kind = "json" THEN Loaded(metafile) ELSE [isdict |-> FALSE]
        user_threshold == MetaGet(metadata, "user_threshold")
    IN  IF IsNumber(user_threshold) /\ ~FloatOf(user_threshold).ok
        THEN FloatOf(user_threshold)
        ELSE IF IsNumber(user_threshold) /\ 0 < user_threshold.v /\ user_threshold.v < ProbOne
        THEN Ok(user_threshold.v) @@ [source |-> "metadata:user"]
        ELSE IF EnvThreshold(envv).ok THEN EnvThreshold(envv) @@ [source |-> "env"]
        ELSE IF ResolveAfterEnv(metadata).ok
        THEN ResolveAfterEnv(metadata) @@ [source |-> "metadata:recommended"]
        ELSE ResolveAfterEnv(metadata)

\* _resolve_threshold_with_source: the threshold and where it came from
ResolveThresholdWithSource(envv, metafile) ==
    LET metadata == IF metafile.kind = "json" THEN Loaded(metafile) ELSE [isdict |-> FALSE]
        user_threshold == MetaGet(metadata, "user_threshold")
        recommended == MetaGet(metadata, "recommended_threshold")
    IN  IF EnvThreshold(envv).ok THEN EnvThreshold(envv) @@ [source |-> "env"]
        ELSE IF IsNumber(user_threshold) /\ ~FloatOf(user_threshold).ok
        THEN FloatOf(user_threshold)
        ELSE IF IsNumber(user_threshold) /\ 0 < user_threshold.v /\ user_threshold.v < ProbOne
        THEN Ok(user_threshold.v) @@ [source |-> "metadata:user"]
        ELSE IF IsNumber(recommended) /\ ~FloatOf(recommended).ok
        THEN FloatOf(recommended)
        ELSE IF IsNumber(recommended) /\ 0 < recommended.v /\ recommended.v < ProbOne
        THEN Ok(recommended.v) @@ [source |-> "metadata:recommended"]
        ELSE Ok(DefaultThreshold) @@ [source |-> "default"]

\* get_threshold: the response; an exception the handler does not catch is a 500
GetThreshold(authorization, envv, metafile) ==
    LET resolved == ResolveThresholdWithSource(envv, metafile)
    IN  IF ~VerifyAdminToken(authorization) THEN Http(401)
        ELSE IF ~resolved.ok THEN Http(500)
        ELSE Http(200) @@ [threshold |-> resolved.value, source |-> resolved.source]

\* a faulty variant of ThresholdDocument, kept for comparison, that always rewrites the recommendation
ThresholdDocumentResetsRecommended(threshold, metafile) ==
    [user_threshold |-> Num(threshold),
     user_threshold_set_at |-> Str("now"),
     recommended_threshold |-> Num(Max(RecommendedFloor, threshold))]
    @@ (IF metafile.kind = "json" /\ metafile.isdict THEN metafile.doc ELSE <<>>)

\* the document update_threshold writes for an accepted threshold
ThresholdDocument(threshold, metafile) ==
    LET metadata == IF metafile.kind = "json" /\ metafile.isdict
                    THEN metafile.doc ELSE <<>>
    IN  [user_threshold |-> Num(threshold),
         user_threshold_set_at |-> Str("now")]
        @@ metadata
        @@ [recommended_threshold |-> Num(Max(RecommendedFloor, threshold))]

\* a faulty variant of UpdateThreshold, kept for comparison, that accepts a threshold of 1
UpdateThresholdClosed(authorization, threshold) ==
    IF ~VerifyAdminToken(authorization) THEN Http(401)
    ELSE IF ~(threshold > 0 /\ threshold <= ProbOne) THEN Http(422)
    ELSE Http(200) @@ [threshold |-> threshold, source |-> "metadata"]

\* update_threshold: the response; 422 is the request schema (gt=0, lt=1)
\* refusing the payload before the handler runs
UpdateThreshold(authorization, threshold) ==
    IF ~VerifyAdminToken(authorization) THEN Http(401)
    ELSE IF ~(threshold > 0 /\ threshold < ProbOne) THEN Http(422)
    ELSE IF ~(0 < threshold /\ threshold < ProbOne) THEN Http(400)
    ELSE Http(200) @@ [threshold |-> threshold, source |-> "metadata"]

\* the PredictRequest schema on one field: a float, or a string that parses
\* to one, becomes the float; anything else is refused
SchemaFloat(v, required) ==
    CASE v.t = "none" -> IF required THEN Raise("missing") ELSE Ok(None)
      [] v.t = "num" -> Ok(v)
      [] v.t = "str" -> IF FloatOfStr(v.s).ok THEN Ok(Num(FloatOfStr(v.s).value))
                        ELSE Raise("float_parsing")
      [] OTHER -> Raise("float_type")

\* a faulty variant of PredictEndpoint, kept for comparison, that validates the inputs before it loads the model
PredictEndpointValidatesFirst(request, envv, mfile, metafile) ==
    LET made == NewPredictor(envv, mfile, metafile)
        features == ValidateFeatures(request[1], request[2], request[3])
        final == IF request[4].t # "none"
                 THEN ValidateRange("final_exam_score", request[4]) ELSE Ok(0)
        checked == IF ~features.ok THEN features ELSE final
        result == Predict(made.value, request[1], request[2], request[3], request[4])
    IN  IF \E k \in 1..4 : ~SchemaFloat(request[k], k < 4).ok THEN Http(422)
        ELSE IF ~checked.ok /\ checked.error = "InvalidInput"
        THEN Http(400) @@ [field |-> checked.field]
        ELSE IF ~made.ok
        THEN IF made.error = "FileNotFoundError" THEN Http(503) ELSE Http(500)
        ELSE IF ~result.ok THEN Http(500)
        ELSE Http(200) @@ [result |-> result]

\* a faulty variant of PredictEndpoint, kept for comparison, that serves from the Predictor it has in memory
PredictEndpointCached(request, envv, mfile, metafile) ==
    LET field(k) == SchemaFloat(request[k], k < 4)
        made == IF predictor.loaded THEN Ok(predictor)
                ELSE NewPredictor(envv, mfile, metafile)
        result == Predict(made.value, field(1).value, field(2).value, field(3).value,
                          field(4).value)
    IN  IF \E k \in 1..4 : ~field(k).ok THEN Http(422)
        ELSE IF ~made.ok
        THEN IF made.error = "FileNotFoundError" THEN Http(503) ELSE Http(500)
        ELSE IF ~result.ok
        THEN IF result.error = "InvalidInput"
             THEN Http(400) @@ [field |-> result.field]
             ELSE Http(500)
        ELSE Http(200) @@ [result |-> result]

\* POST /api/predict: the response to the request <<attendance, marks,
\* internal_score, final_exam_score>>
PredictEndpoint(request, envv, mfile, metafile) ==
    LET field(k) == SchemaFloat(request[k], k < 4)
        made == NewPredictor(envv, mfile, metafile)
        result == Predict(made.value, field(1).value, field(2).value, field(3).value,
                          field(4).value)
    IN  IF \E k \in 1..4 : ~field(k).ok THEN Http(422)
        ELSE IF ~made.ok
        THEN IF made.error = "FileNotFoundError" THEN Http(503) ELSE Http(500)
        ELSE IF ~result.ok
        THEN IF result.error = "InvalidInput"
             THEN Http(400) @@ [field |-> result.field]
             ELSE Http(500)
        ELSE Http(200) @@ [result |-> result]

\* the prediction_data the predict_batch handler builds: the enrollments with
\* attendance, marks and internal_score present, without their
\* final_exam_score
PredictionData(enrollments) ==
    LET items == [k \in 1..Len(enrollments) |->
                    [enrollments[k] EXCEPT !.final_exam_score = None]]
        keep == {k \in 1..Len(enrollments) :
                    /\ enrollments[k].attendance # None
                    /\ enrollments[k].marks # None
                    /\ enrollments[k].internal_score # None}
    IN  SelectIdx(items, keep, Len(enrollments))

\* POST /api/predict_batch.  The 400 the handler raises for an empty
\* prediction_data is raised inside its try block, whose "except Exception"
\* turns it into a 500.
PredictBatchEndpoint(authorization, enrollments, envv, mfile, metafile) ==
    LET made == NewPredictor(envv, mfile, metafile)
        prediction_data == PredictionData(enrollments)
        predictions == PredictBatch(made.value, prediction_data)
    IN  IF ~VerifyAdminToken(authorization) THEN Http(401)
        ELSE IF ~made.ok
        THEN IF made.error = "FileNotFoundError" THEN Http(503) ELSE Http(500)
        ELSE IF prediction_data = <<>> THEN Http(500)
        ELSE IF ~predictions.ok
        THEN IF predictions.error = "InvalidInput" THEN Http(400) ELSE Http(500)
        ELSE Http(200)
                @@ [predictions |-> predictions.results,
                    total |-> Len(predictions.results)]

\* POST /api/export: the response (the CSV it writes is none of the two
\* artifacts).  Its 400 for no rows is likewise turned into a 500.
ExportData(authorization, rows) ==
    LET enrollments == GetTrainingData(rows)
    IN  IF ~VerifyAdminToken(authorization) THEN Http(401)
        ELSE IF enrollments.zero + enrollments.one = 0 THEN Http(500)
        ELSE Http(200) @@ [exported |-> enrollments.zero + enrollments.one]

-----------------------------------------------------------------------------
(* Input domains *)

Model1 ==
    [exists |-> TRUE, id |-> 1, intercept |-> -2, coef |-> <<3, 8, 2>>,
     mean |-> <<60, 50, 55>>, scale |-> <<20, 30, 25>>]
Model2 ==
    [exists |-> TRUE, id |-> 2, intercept |-> 1, coef |-> <<6, 12, -1>>,
     mean |-> <<65, 45, 50>>, scale |-> <<15, 35, 30>>]

\* what the estimators of one training run can come out as
Fit1 ==
    [model |-> Model1,
     cv_coefficients |-> [attendance |-> 3, marks |-> 7, internal_score |-> 2],
     cv_intercept |-> -2,
     base |-> [coef |-> <<3, 8, 2>>, intercept |-> -2,
               mean |-> <<60, 50, 55>>, scale |-> <<20, 30, 25>>],
     permutation_importance |-> [attendance |-> 200, marks |-> 700, internal_score |-> 100],
     best_threshold |-> 300]
Fit2 ==
    [model |-> Model2,
     cv_coefficients |-> [attendance |-> 6, marks |-> 11, internal_score |-> -1],
     cv_intercept |-> 1,
     base |-> [coef |-> <<6, 12, -1>>, intercept |-> 1,
               mean |-> <<65, 45, 50>>, scale |-> <<15, 35, 30>>],
     permutation_importance |-> [attendance |-> 300, marks |-> 700, internal_score |-> 0],
     best_threshold |-> 700]
Fits == {Fit1, Fit2}

Authorizations ==
    {None, Str("Bearer changeme"), Str("changeme"), Str("Bearer wrong"),
     Str("Bearer Bearer changeme")}

\* the sequences over S of length at most n
SeqsUpTo(S, n) == UNION {[1..k -> S] : k \in 0..n}

\* row counts by result with at most MaxRows rows in all
RowCounts(Zeros, Ones, Nulls) ==
    {r \in [zero : Zeros, one : Ones, null : Nulls] : r.zero + r.one + r.null <= MaxRows}

Item(student_id, attendance, marks, internal_score, final_exam_score) ==
    [student_id |-> student_id, course_id |-> Num(7), attendance |-> attendance,
     marks |-> marks, internal_score |-> internal_score,
     final_exam_score |-> final_exam_score]

-----------------------------------------------------------------------------
(* Actions *)

Call(op, args, out) == [op |-> op, args |-> args, out |-> out]

\* Predictor(model_path, metadata_path)
LoadPredictor ==
    LET made == NewPredictor(env, modelFile, metaFile)
    IN  /\ predictor' = IF made.ok THEN made.value ELSE predictor
        /\ resp' = Call("load", <<>>, IF made.ok THEN [ok |-> TRUE] ELSE made)
        /\ UNCHANGED <<inflight, env, modelFile, metaFile>>

\* a faulty variant of PredictCall, kept for comparison, that keeps the last probability as the threshold
PredictCallKeepsState(Inputs) ==
    /\ predictor.loaded
    /\ \E in \in Inputs :
        LET out == Predict(predictor, in[1], in[2], in[3], in[4])
        IN  /\ resp' = Call("predict", in, out)
            /\ predictor' = IF out.ok THEN [predictor EXCEPT !.threshold = out.probability]
                             ELSE predictor
    /\ UNCHANGED <<inflight, env, modelFile, metaFile>>

\* predictor.predict(attendance, marks, internal_score, final_exam_score)
PredictCall(Inputs) ==
    /\ predictor.loaded
    /\ \E in \in Inputs :
        resp' = Call("predict", in, Predict(predictor, in[1], in[2], in[3], in[4]))
    /\ UNCHANGED <<inflight, env, modelFile, metaFile, predictor>>

\* predictor.predict_batch(data)
PredictBatchCall(Items) ==
    /\ predictor.loaded
    /\ \E data \in SeqsUpTo(Items, MaxBatch) :
        resp' = Call("predict_batch", data, PredictBatch(predictor, data))
    /\ UNCHANGED <<inflight, env, modelFile, metaFile, predictor>>

\* a faulty variant of TrainFromDbCall, kept for comparison, that writes the model artifact before it checks the data
TrainFromDbCallWritesFirst(Rows) ==
    \E rows \in Rows, fit \in Fits :
        LET trained == TrainFromDb(rows, fit, metaFile)
        IN  /\ resp' = Call("train_from_db", rows, trained)
            /\ modelFile' = fit.model
            /\ metaFile' = IF trained.ok THEN JsonFile(trained.metadata) ELSE metaFile
            /\ UNCHANGED <<inflight, env, predictor>>

\* train_from_db(enrollments, model_path, metadata_path)
TrainFromDbCall(Rows) ==
    \E rows \in Rows, fit \in Fits :
        LET trained == TrainFromDb(rows, fit, metaFile)
        IN  /\ resp' = Call("train_from_db", rows, trained)
            /\ modelFile' = IF trained.ok THEN trained.model ELSE modelFile
            /\ metaFile' = IF trained.ok THEN JsonFile(trained.metadata) ELSE metaFile
            /\ UNCHANGED <<inflight, env, predictor>>

\* POST /api/retrain
RetrainCall(Auths, Rows) ==
    \E authorization \in Auths, rows \in Rows, fit \in Fits :
        LET out == Retrain(authorization, rows, fit, metaFile)
        IN  /\ resp' = Call("retrain", <<authorization, rows>>,
                            [k \in DOMAIN out \ {"trained"} |-> out[k]])
            /\ modelFile' = IF out.ok THEN out.trained.model ELSE modelFile
            /\ metaFile' = IF out.ok THEN JsonFile(out.trained.metadata) ELSE metaFile
            /\ UNCHANGED <<inflight, env, predictor>>

\* POST /api/settings/threshold
UpdateThresholdCall(Auths, Thresholds) ==
    \E authorization \in Auths, threshold \in Thresholds :
        LET out == UpdateThreshold(authorization, threshold)
        IN  /\ resp' = Call("set_threshold", <<authorization, threshold>>, out)
            /\ metaFile' = IF out.ok THEN JsonFile(ThresholdDocument(threshold, metaFile))
                           ELSE metaFile
            /\ UNCHANGED <<inflight, env, modelFile, predictor>>

NoCall == Call("none", <<>>, [ok |-> TRUE])

\* no retrain and no set_threshold under way
Idle == [retrain |-> [at |-> "idle"], setter |-> [at |-> "idle"], overlap |-> FALSE]

\* POST /api/predict
PredictEndpointCall(Requests) ==
    \E request \in Requests :
        /\ resp' = Call("predict_endpoint", request,
                        PredictEndpoint(request, env, modelFile, metaFile))
        /\ UNCHANGED <<inflight, env, modelFile, metaFile, predictor>>

\* POST /api/predict_batch over the enrollments the database holds
PredictBatchEndpointCall(Auths, Enrollments) ==
    \E authorization \in Auths, enrollments \in SeqsUpTo(Enrollments, MaxBatch) :
        /\ resp' = Call("predict_batch_endpoint", <<authorization, enrollments>>,
                        PredictBatchEndpoint(authorization, enrollments, env,
                                             modelFile, metaFile))
        /\ UNCHANGED <<inflight, env, modelFile, metaFile, predictor>>

\* POST /api/export
ExportCall(Auths, Rows) ==
    \E authorization \in Auths, rows \in Rows :
        /\ resp' = Call("export", <<authorization, rows>>,
                        ExportData(authorization, rows))
        /\ UNCHANGED <<inflight, env, modelFile, metaFile, predictor>>

\* GET /api/settings/threshold
GetThresholdCall(Auths) ==
    \E authorization \in Auths :
        /\ resp' = Call("get_threshold", <<authorization>>,
                        GetThreshold(authorization, env, metaFile))
        /\ UNCHANGED <<inflight, env, modelFile, metaFile, predictor>>

-----------------------------------------------------------------------------
(* Threshold resolution: every environment value against every pair of      *)
(* user_threshold and recommended_threshold entries                         *)

EnvValues ==
    {NoEnv} \cup {EnvStr(s) : s \in {"", "abc", "0", "0.3", "3e-1", "0.75", "1", "1.5", "-0.2"}}

ThresholdEntries ==
    {None, Str("0.5"), BigInt, Num(-200), Num(0), Num(300), Num(500), Num(750),
     Num(1000), Num(1500)}

ThresholdDocs ==
    {<<>>}
    \cup {[user_threshold |-> u] : u \in ThresholdEntries}
    \cup {[recommended_threshold |-> r] : r \in ThresholdEntries}
    \cup {[user_threshold |-> u, recommended_threshold |-> r] :
            u \in ThresholdEntries, r \in ThresholdEntries}

InitThreshold ==
    /\ env \in EnvValues
    /\ modelFile \in {NoModel, Model1}
    /\ metaFile \in {Absent, Malformed, NonDict} \cup {JsonFile(d) : d \in ThresholdDocs}
    /\ predictor = NoPredictor
    /\ resp = NoCall
    /\ inflight = Idle

NextThreshold == LoadPredictor \/ GetThresholdCall(Authorizations)

SpecThreshold == InitThreshold /\ [][NextThreshold]_vars

-----------------------------------------------------------------------------
(* Claims on threshold resolution, checked under SpecThreshold *)

\* an override that is a number strictly between 0 and 1
ValidOverride(x) == x.t = "num" /\ 0 < x.v /\ x.v < ProbOne

EnvOverride ==
    IF env.set /\ FloatOfStr(env.s).ok THEN Num(FloatOfStr(env.s).value) ELSE None
UserOverride ==
    IF metaFile.kind = "json" /\ metaFile.isdict
    THEN Get(metaFile.doc, "user_threshold", None) ELSE None
RecommendedOverride ==
    IF metaFile.kind = "json" /\ metaFile.isdict
    THEN Get(metaFile.doc, "recommended_threshold", None) ELSE None

ExpectedThreshold ==
    IF ValidOverride(EnvOverride) THEN EnvOverride.v
    ELSE IF ValidOverride(UserOverride) THEN UserOverride.v
    ELSE IF ValidOverride(RecommendedOverride) THEN RecommendedOverride.v
    ELSE DefaultThreshold

ExpectedSource ==
    IF ValidOverride(EnvOverride) THEN "env"
    ELSE IF ValidOverride(UserOverride) THEN "metadata:user"
    ELSE IF ValidOverride(RecommendedOverride) THEN "metadata:recommended"
    ELSE "default"

\* C2: whenever a Predictor load or get_threshold resolves a threshold, it is
\* the valid PRED_THRESHOLD value if there is one, else the valid
\* user_threshold if there is one, else the valid recommended_threshold if
\* there is one, else 0.6.
C2_ThresholdPrecedence ==
    /\ (resp.op = "load" /\ resp.out.ok) => predictor.threshold = ExpectedThreshold
    /\ (resp.op = "get_threshold" /\ resp.out.ok) =>
            /\ resp.out.threshold = ExpectedThreshold
            /\ resp.out.source = ExpectedSource

\* C2 witness: a load with an invalid environment value and two valid,
\* different overrides in the metadata took the user_threshold.
C2_Witness ==
    /\ resp.op = "load" /\ resp.out.ok
    /\ env.set /\ ~ValidOverride(EnvOverride)
    /\ ValidOverride(UserOverride) /\ ValidOverride(RecommendedOverride)
    /\ UserOverride.v # RecommendedOverride.v
    /\ predictor.threshold = UserOverride.v

\* C3: a Predictor load over a model artifact and any parseable metadata
\* document does not raise on a malformed threshold override, and the
\* threshold it resolves is strictly between 0 and 1.
C3_MalformedOverrideIgnored ==
    (resp.op = "load" /\ modelFile.exists /\ metaFile.kind # "malformed") =>
        /\ resp.out.ok
        /\ predictor.loaded
        /\ 0 < predictor.threshold /\ predictor.threshold < ProbOne

\* C21: over a model artifact and a metadata document that is not JSON, a
\* Predictor load succeeds with empty metadata and the threshold the
\* environment or the default gives, and get_threshold reports that
\* threshold.
C21_MalformedMetadataDegrades ==
    /\ (resp.op = "load" /\ modelFile.exists /\ metaFile = Malformed) =>
            /\ resp.out.ok
            /\ predictor.loaded
            /\ predictor.metadata = EmptyMetadata
            /\ predictor.threshold = ExpectedThreshold
    /\ (resp.op = "get_threshold" /\ metaFile = Malformed /\ resp.out.status # 401) =>
            /\ resp.out.status = 200
            /\ resp.out.threshold = ExpectedThreshold

\* C28: over a model artifact and a parseable metadata document, a Predictor
\* load resolves a threshold exactly when get_threshold does, and the two
\* thresholds are equal.
C28_ResolversAgree ==
    (resp.op = "load" /\ modelFile.exists /\ metaFile.kind = "json") =>
        LET reported == GetThreshold(Str("Bearer changeme"), env, metaFile)
        IN  /\ reported.ok = resp.out.ok
            /\ resp.out.ok => reported.threshold = predictor.threshold

\* C28 witness: under a valid environment value and a document with a valid
\* user_threshold that differs from it, the load and get_threshold both took
\* the environment value.
C28_Witness ==
    /\ resp.op = "load" /\ resp.out.ok
    /\ ValidOverride(EnvOverride) /\ ValidOverride(UserOverride)
    /\ EnvOverride.v # UserOverride.v
    /\ predictor.threshold = EnvOverride.v
    /\ GetThreshold(Str("Bearer changeme"), env, metaFile).threshold = EnvOverride.v
    /\ GetThreshold(Str("Bearer changeme"), env, metaFile).source = "env"

-----------------------------------------------------------------------------
(* Inference over fixed artifacts: every input against a range of stored    *)
(* coefficients and scales                                                  *)

FeatureInputs ==
    {None, Str("abc"), Num(-5), Num(0), Num(39), Num(40), Num(60), Num(70), Num(80),
     Num(95), Num(100), Num(120)}
FinalInputs == {None, Str("abc"), Str("0"), Num(10), Num(20), Num(50), Num(120)}
PredictInputs == FeatureInputs \X FeatureInputs \X FeatureInputs \X FinalInputs

StoredCoefficients ==
    {[attendance |-> 3, marks |-> 7, internal_score |-> 2],
     [attendance |-> -4, marks |-> 60, internal_score |-> 0],
     [marks |-> 5]}
StoredScalers ==
    {[mean |-> <<60, 50, 55>>, scale |-> <<20, 30, 25>>],
     [mean |-> <<0, 0, 0>>, scale |-> <<0, 1, 10>>]}

PredictDocs ==
    {[coefficients |-> c, scaler |-> sc] : c \in StoredCoefficients, sc \in StoredScalers}
    \cup {TrainingMetadata([zero |-> 5, one |-> 5], Fit1)}

BatchItems ==
    {Item(Num(1), Num(39), Num(70), Num(70), None),
     Item(Num(2), Num(0), Num(95), Num(70), Num(10)),
     Item(None, Num(120), Num(70), Num(70), None),
     Item(Num(4), Num(70), None, Num(70), Num(50)),
     Item(Num(5), Num(70), Num(70), Str("abc"), Num(120)),
     Item(Num(6), Num(70), Num(70), Num(100), Num(120))}

InitPredict ==
    /\ env = NoEnv
    /\ modelFile \in {Model1, Model2}
    /\ metaFile \in {Absent} \cup {JsonFile(d) : d \in PredictDocs}
    /\ predictor = NoPredictor
    /\ resp = NoCall
    /\ inflight = Idle

\* predict and predict_batch leave the Predictor and the files as they are,
\* so a call after a call reaches nothing a call after the load does not:
\* each call here is made on a freshly constructed Predictor
NextPredict ==
    \/ LoadPredictor
    \/ resp.op = "load" /\ PredictCall(PredictInputs)
    \/ resp.op = "load" /\ PredictBatchCall(BatchItems)

SpecPredict == InitPredict /\ [][NextPredict]_vars

-----------------------------------------------------------------------------
(* Claims on inference, checked under SpecPredict *)

\* a value the feature validation is said to refuse: null, not a number, or
\* outside [0,100]
RefusedValue(v) ==
    \/ v.t = "none"
    \/ v.t = "str"
    \/ v.t = "num" /\ (v.v < 0 \/ v.v > 100)

\* a supplied final_exam_score outside [0,100]
RefusedFinal(v) == v.t = "num" /\ (v.v < 0 \/ v.v > 100)

\* the first refused field of a call in the order attendance, marks,
\* internal_score, final_exam_score ("" when none is refused)
FirstRefused(a, m, i, f) ==
    IF RefusedValue(a) THEN "attendance"
    ELSE IF RefusedValue(m) THEN "marks"
    ELSE IF RefusedValue(i) THEN "internal_score"
    ELSE IF RefusedFinal(f) THEN "final_exam_score"
    ELSE ""

ClaimedCap(feature) ==
    CASE feature = "attendance" -> 10 [] feature = "marks" -> 15
      [] feature = "internal_score" -> 10

SuggestionsFor(feedback, feature) ==
    {k \in 1..Len(feedback) : feedback[k].feature = feature}

\* C6: a successful predict returns a suggestion for a feature exactly when
\* its value v is below 100, only one, and its increase d is
\* min(cap, 100 - v), so 0 < d <= cap and v + d <= 100.
C6_SuggestionDelta ==
    (resp.op = "predict" /\ resp.out.ok) =>
        \A idx \in 1..Len(FEATURES) :
            LET v == resp.args[idx].v
                cap == ClaimedCap(FEATURES[idx])
                found == SuggestionsFor(resp.out.feedback, FEATURES[idx])
            IN  /\ (found # {}) <=> (v < 100)
                /\ Cardinality(found) <= 1
                /\ \A k \in found :
                    LET d == resp.out.feedback[k].delta_value
                    IN  /\ resp.out.feedback[k].current_value = v
                        /\ d = (IF cap <= 100 - v THEN cap ELSE 100 - v)
                        /\ 0 < d /\ d <= cap /\ v + d <= 100

\* C6 witness: a predict with marks at 95 and attendance at 100 suggested 5
\* more marks and nothing for attendance.
C6_Witness ==
    /\ resp.op = "predict" /\ resp.out.ok
    /\ resp.args[1] = Num(100) /\ resp.args[2] = Num(95)
    /\ SuggestionsFor(resp.out.feedback, "attendance") = {}
    /\ \E k \in SuggestionsFor(resp.out.feedback, "marks") :
            resp.out.feedback[k].delta_value = 5

\* C7: every suggestion of a successful predict has
\* estimated_probability_gain = max(0, new_probability_estimate - probability),
\* 0 <= gain <= 1 - probability and 0 <= new_probability_estimate <= 1.
C7_GainBounds ==
    (resp.op = "predict" /\ resp.out.ok) =>
        \A k \in 1..Len(resp.out.feedback) :
            LET s == resp.out.feedback[k]
                diff == s.new_probability_estimate - resp.out.probability
            IN  /\ s.estimated_probability_gain = (IF diff > 0 THEN diff ELSE 0)
                /\ 0 <= s.estimated_probability_gain
                /\ s.estimated_probability_gain <= ProbOne - resp.out.probability
                /\ 0 <= s.new_probability_estimate
                /\ s.new_probability_estimate <= ProbOne

\* C7 witness: with a negative stored coefficient and a stored scale of 0, a
\* suggestion's new estimate fell below the probability and its gain was 0.
C7_Witness ==
    /\ resp.op = "predict" /\ resp.out.ok
    /\ predictor.metadata.doc # <<>>
    /\ predictor.metadata.doc.coefficients.marks > 0
    /\ "attendance" \in DOMAIN predictor.metadata.doc.coefficients
    /\ predictor.metadata.doc.coefficients.attendance < 0
    /\ predictor.metadata.doc.scaler.scale[1] = 0
    /\ \E k \in 1..Len(resp.out.feedback) :
        /\ resp.out.feedback[k].feature = "attendance"
        /\ resp.out.feedback[k].new_probability_estimate < resp.out.probability
        /\ resp.out.feedback[k].estimated_probability_gain = 0
    /\ \E k \in 1..Len(resp.out.feedback) :
        resp.out.feedback[k].estimated_probability_gain > 0

\* C8: a predict whose attendance, marks or internal_score is null, not a
\* number or outside [0,100], or whose supplied final_exam_score is outside
\* [0,100], raises InvalidInput naming the first such field in the order
\* attendance, marks, internal_score, final_exam_score, without calling the
\* model and without a probability or a label.
C8_InvalidInput ==
    (/\ resp.op = "predict"
     /\ FirstRefused(resp.args[1], resp.args[2], resp.args[3], resp.args[4]) # "") =>
        /\ ~resp.out.ok
        /\ resp.out.error = "InvalidInput"
        /\ resp.out.field =
                FirstRefused(resp.args[1], resp.args[2], resp.args[3], resp.args[4])
        /\ resp.out.model_calls = 0
        /\ "probability" \notin DOMAIN resp.out
        /\ "predicted_result" \notin DOMAIN resp.out

\* C8 witness: a predict with marks missing and final_exam_score out of range
\* was refused for marks.
C8_Witness ==
    /\ resp.op = "predict" /\ ~resp.out.ok
    /\ ~RefusedValue(resp.args[1])
    /\ resp.args[2] = None
    /\ RefusedFinal(resp.args[4])
    /\ resp.out.field = "marks"

\* an item predict_batch is said to refuse
RefusedItem(item) ==
    FirstRefused(item.attendance, item.marks, item.internal_score,
                 item.final_exam_score) # ""

\* C9: a predict_batch over a list with a refused item raises InvalidInput,
\* never calls the model and returns no prediction for any item.
C9_BatchAllOrNothing ==
    (/\ resp.op = "predict_batch"
     /\ \E k \in 1..Len(resp.args) : RefusedItem(resp.args[k])) =>
        /\ ~resp.out.ok
        /\ resp.out.error = "InvalidInput"
        /\ resp.out.model_calls = 0
        /\ "results" \notin DOMAIN resp.out

\* C9 witness: a batch whose first item is valid and whose second is not was
\* refused.
C9_Witness ==
    /\ resp.op = "predict_batch" /\ ~resp.out.ok
    /\ Len(resp.args) = 2
    /\ ~RefusedItem(resp.args[1])
    /\ RefusedItem(resp.args[2])

\* C10: when predict_batch raises InvalidInput, the error identifies the
\* first refused item of the list, whichever of its fields is refused.
C10_BatchErrorNamesItem ==
    (resp.op = "predict_batch" /\ ~resp.out.ok /\ resp.out.error = "InvalidInput") =>
        \E k \in 1..Len(resp.args) :
            /\ RefusedItem(resp.args[k])
            /\ \A j \in 1..(k - 1) : ~RefusedItem(resp.args[j])
            /\ resp.out.item = resp.args[k]

\* an input the validation accepts: a number, or a string that parses to one,
\* in [0,100]
AcceptedValue(v) ==
    \/ v.t = "num" /\ 0 <= v.v /\ v.v <= 100
    \/ v.t = "str" /\ FloatOfStr(v.s).ok
            /\ 0 <= FloatOfStr(v.s).value /\ FloatOfStr(v.s).value <= 100

\* the float the validation makes of an accepted input
ValidatedValue(v) == IF v.t = "num" THEN v.v ELSE FloatOfStr(v.s).value

\* a predict call whose four inputs pass the validation
AcceptedCall(args) ==
    /\ AcceptedValue(args[1]) /\ AcceptedValue(args[2]) /\ AcceptedValue(args[3])
    /\ (args[4] = None \/ AcceptedValue(args[4]))

\* the suspicion rules that hold on the validated inputs of a call
FiredRules(args) ==
    LET attendance == ValidatedValue(args[1])
        marks == ValidatedValue(args[2])
        internal_score == ValidatedValue(args[3])
    IN  {r \in {"zero_marks_high_internal", "low_attendance_high_marks",
                "low_final_high_marks"} :
            \/ r = "zero_marks_high_internal" /\ marks = 0 /\ internal_score >= 60
            \/ r = "low_attendance_high_marks" /\ attendance < 40 /\ marks >= 80
            \/ r = "low_final_high_marks" /\ args[4] # None
                    /\ ValidatedValue(args[4]) < 20 /\ marks >= 70}

\* C11: a predict whose inputs pass the validation returns suspicious_input
\* true exactly when one of the three rules holds on the validated inputs, and
\* suspicious_reasons exactly then, with one warning for each rule that holds.
C11_SuspicionRules ==
    (resp.op = "predict" /\ AcceptedCall(resp.args)) =>
        /\ resp.out.ok
        /\ resp.out.suspicious_input = (FiredRules(resp.args) # {})
        /\ ("suspicious_reasons" \in DOMAIN resp.out) = (FiredRules(resp.args) # {})
        /\ FiredRules(resp.args) # {} =>
                /\ Len(resp.out.suspicious_reasons) = Cardinality(FiredRules(resp.args))
                /\ {resp.out.suspicious_reasons[k] :
                        k \in 1..Len(resp.out.suspicious_reasons)}
                    = FiredRules(resp.args)

\* the part of a prediction that C12 says final_exam_score has no say in
Substance(r) ==
    [probability |-> r.probability,
     predicted_result |-> r.predicted_result,
     explanation |-> r.explanation,
     feedback |-> r.feedback]

\* C12: when a predict call with valid inputs has been answered, the same
\* Predictor answers the call made with any other valid final_exam_score, or
\* none, with the same probability, predicted_result, explanation and
\* feedback.
C12_SuspicionAdvisory ==
    (resp.op = "predict" /\ AcceptedCall(resp.args) /\ resp.out.ok) =>
        \A f \in FinalInputs :
            (f = None \/ AcceptedValue(f)) =>
                LET other == Predict(predictor, resp.args[1], resp.args[2],
                                     resp.args[3], f)
                IN  /\ other.ok
                    /\ Substance(other) = Substance(resp.out)

C14_MetadataAbsent ==
    /\ (resp.op = "load" /\ modelFile.exists /\ metaFile = Absent) =>
            /\ resp.out.ok
            /\ predictor.loaded
            /\ predictor.metadata = EmptyMetadata
            /\ ~env.set => predictor.threshold = 600
    /\ (resp.op = "predict" /\ metaFile = Absent /\ ~env.set
            /\ AcceptedCall(resp.args) /\ resp.args[4].t # "str") =>
            /\ resp.out.ok
            /\ resp.out.threshold_used = 600
            /\ Len(resp.out.explanation.top_reasons) = 3
            /\ \A k \in 1..3 :
                /\ resp.out.explanation.top_reasons[k].contribution = 0
                /\ resp.out.explanation.top_reasons[k].effect = "neutral"

\* C14 witness: without a metadata document, a predict passed at 0.6 with
\* three neutral reasons.
C14_Witness ==
    /\ resp.op = "predict" /\ resp.out.ok
    /\ metaFile = Absent
    /\ predictor.metadata = EmptyMetadata
    /\ resp.out.threshold_used = 600
    /\ resp.out.probability >= 600
    /\ resp.out.predicted_result = 1
    /\ \A k \in 1..3 : resp.out.explanation.top_reasons[k].effect = "neutral"

\* the priority C19 gives a gain, and its place in the order
ClaimedPriority(gain) ==
    IF gain < 5 THEN "low" ELSE IF gain < 100 THEN "medium" ELSE "high"
ClaimedRank(priority) ==
    CASE priority = "high" -> 1 [] priority = "medium" -> 2 [] priority = "low" -> 3

\* C19: every suggestion of a successful predict is low below a gain of
\* 0.005, medium from 0.005 to below 0.10 and high from 0.10 on; the list runs
\* from high over medium to low, by descending gain within a priority, and so
\* never rises in gain.
C19_FeedbackOrder ==
    (resp.op = "predict" /\ resp.out.ok) =>
        LET feedback == resp.out.feedback
        IN  /\ \A k \in 1..Len(feedback) :
                    feedback[k].priority =
                        ClaimedPriority(feedback[k].estimated_probability_gain)
            /\ \A k \in 1..(Len(feedback) - 1) :
                    /\ ClaimedRank(feedback[k].priority)
                            <= ClaimedRank(feedback[k + 1].priority)
                    /\ feedback[k].priority = feedback[k + 1].priority =>
                            feedback[k].estimated_probability_gain
                                >= feedback[k + 1].estimated_probability_gain
                    /\ feedback[k].estimated_probability_gain
                            >= feedback[k + 1].estimated_probability_gain

\* C19 witness: a predict returned a high, a medium and a low suggestion in
\* that order, the high one not for the first feature.
C19_Witness ==
    /\ resp.op = "predict" /\ resp.out.ok
    /\ Len(resp.out.feedback) = 3
    /\ resp.out.feedback[1].priority = "high"
    /\ resp.out.feedback[1].feature # "attendance"
    /\ resp.out.feedback[2].priority = "medium"
    /\ resp.out.feedback[3].priority = "low"

\* the contribution C20 gives a feature: the standardized value, a stored
\* scale of 0 read as 1, times the stored coefficient
ClaimedContribution(metadata, args, idx) ==
    LET coefficient == Get(MetaGetOr(metadata, "coefficients", <<>>), FEATURES[idx], 0)
        mean == Get(MetaGetOr(metadata, "scaler", <<>>), "mean", <<0, 0, 0>>)[idx]
        stored == Get(MetaGetOr(metadata, "scaler", <<>>), "scale", <<1, 1, 1>>)[idx]
        scale == IF stored = 0 THEN 1 ELSE stored
    IN  ((ValidatedValue(args[idx]) - mean) * coefficient) \div scale

\* C20: the top_reasons of a successful predict hold at most 3 entries, each
\* for a different feature with that feature's contribution, in order of
\* non-increasing absolute contribution, tagged increase above 0, decrease
\* below 0 and neutral at 0.
C20_TopReasons ==
    (resp.op = "predict" /\ resp.out.ok) =>
        LET top == resp.out.explanation.top_reasons
            magnitude(k) == IF top[k].contribution < 0 THEN -top[k].contribution
                            ELSE top[k].contribution
        IN  /\ Len(top) <= 3
            /\ \A k \in 1..Len(top) :
                /\ top[k].feature \in FeatureSet
                /\ top[k].contribution =
                        ClaimedContribution(predictor.metadata, resp.args,
                                            FeatureIdx(top[k].feature))
                /\ top[k].effect =
                        (IF top[k].contribution > 0 THEN "increase"
                         ELSE IF top[k].contribution < 0 THEN "decrease" ELSE "neutral")
                /\ \A j \in 1..Len(top) : j # k => top[j].feature # top[k].feature
            /\ \A k \in 1..(Len(top) - 1) : magnitude(k) >= magnitude(k + 1)

\* C20 witness: with a stored scale of 0 for attendance, a predict ranked the
\* positive contribution of marks first, the negative one of attendance
\* (-4 times the value, the scale read as 1) second and a zero one last.
C20_Witness ==
    /\ resp.op = "predict" /\ resp.out.ok
    /\ predictor.metadata.doc # <<>>
    /\ predictor.metadata.doc.scaler.scale[1] = 0
    /\ resp.out.explanation.top_reasons[1].feature = "marks"
    /\ resp.out.explanation.top_reasons[1].effect = "increase"
    /\ resp.out.explanation.top_reasons[2].feature = "attendance"
    /\ resp.out.explanation.top_reasons[2].effect = "decrease"
    /\ resp.out.explanation.top_reasons[2].contribution = -4 * resp.args[1].v
    /\ resp.out.explanation.top_reasons[3].effect = "neutral"

\* an item predict_batch accepts: its four inputs pass the validation
AcceptedItem(item) ==
    AcceptedCall(<<item.attendance, item.marks, item.internal_score,
                   item.final_exam_score>>)

\* what C23 says of the result r for the item: the identifiers of the item,
\* and the six fields as predict returns them for the item's inputs
SameAsPredict(r, item, p) ==
    LET single == Predict(p, item.attendance, item.marks, item.internal_score,
                          item.final_exam_score)
    IN  /\ single.ok
        /\ r.student_id = item.student_id
        /\ r.course_id = item.course_id
        /\ r.probability = single.probability
        /\ r.predicted_result = single.predicted_result
        /\ r.threshold_used = single.threshold_used
        /\ r.suspicious_input = single.suspicious_input
        /\ ("suspicious_reasons" \in DOMAIN r) = ("suspicious_reasons" \in DOMAIN single)
        /\ "suspicious_reasons" \in DOMAIN r =>
                r.suspicious_reasons = single.suspicious_reasons
        /\ r.explanation = single.explanation

\* C23: a predict_batch over a list of accepted items returns one result for
\* each item, in the order of the list, each with its item's identifiers and
\* with what predict returns for its item on the same Predictor.
C23_BatchMatchesPredict ==
    (resp.op = "predict_batch" /\ \A k \in 1..Len(resp.args) : AcceptedItem(resp.args[k])) =>
        /\ resp.out.ok
        /\ Len(resp.out.results) = Len(resp.args)
        /\ \A k \in 1..Len(resp.args) :
                SameAsPredict(resp.out.results[k], resp.args[k], predictor)

-----------------------------------------------------------------------------
(* Training calls over every count of rows *)

AllRows == RowCounts(0..MaxRows, 0..MaxRows, 0..2)

InitTrain ==
    /\ env = NoEnv
    /\ modelFile = NoModel
    /\ metaFile \in {Absent, Malformed, JsonFile(ThresholdDocument(300, Absent))}
    /\ predictor = NoPredictor
    /\ resp = NoCall
    /\ inflight = Idle

\* a training call that raised has written nothing (TrainFromDbCall,
\* RetrainCall), so the calls that can follow it are those that could precede
\* it: the calls here follow the initial state or a call that returned
NextTrain ==
    \/ resp.out.ok /\ TrainFromDbCall(AllRows)
    \/ resp.out.ok /\ RetrainCall(Authorizations, AllRows)

SpecTrain == InitTrain /\ [][NextTrain]_vars

\* C5: train_from_db raises the insufficient-data error, naming the count,
\* when fewer than 10 of its rows have a result, and the single-class error
\* when 10 or more have one and all of them the same; the retrain handler
\* answers 400 in the same cases.
C5_TrainingPreconditions ==
    /\ resp.op = "train_from_db" =>
        LET labeled == resp.args.zero + resp.args.one
        IN  /\ labeled < 10 =>
                /\ ~resp.out.ok
                /\ resp.out.error = "ValueError"
                /\ resp.out.reason = "insufficient"
                /\ resp.out.count = labeled
            /\ (labeled >= 10 /\ (resp.args.zero = 0 \/ resp.args.one = 0)) =>
                /\ ~resp.out.ok
                /\ resp.out.error = "ValueError"
                /\ resp.out.reason = "single class"
    /\ (resp.op = "retrain" /\ resp.out.status # 401) =>
        LET labeled == resp.args[2].zero + resp.args[2].one
        IN  /\ labeled < 10 =>
                /\ resp.out.status = 400
                /\ resp.out.reason = "insufficient"
                /\ resp.out.count = labeled
            /\ (labeled >= 10 /\ (resp.args[2].zero = 0 \/ resp.args[2].one = 0)) =>
                /\ resp.out.status = 400
                /\ resp.out.reason = "single class"

\* the coefficients of a fitted pipeline as the metadata document keys them
CoefficientsOf(fitted) == [f \in FeatureSet |-> fitted.coef[FeatureIdx(f)]]

\* C22: the coefficients and the intercept a successful training call
\* persists are those of the full-data fit whose scaler mean and scale it
\* persists beside them.
C22_ReferenceCoefficients ==
    (resp.op \in {"train_from_db", "retrain"} /\ resp.out.ok) =>
        \E fit \in Fits :
            /\ metaFile.doc.scaler = [mean |-> fit.base.mean, scale |-> fit.base.scale]
            /\ metaFile.doc.coefficients = CoefficientsOf(fit.base)
            /\ metaFile.doc.intercept = fit.base.intercept

-----------------------------------------------------------------------------
(* The artifacts over time: loads, predictions, training and threshold      *)
(* updates in any order, one call at a time                                 *)

FewAuthorizations ==
    {None, Str("Bearer changeme"), Str("Bearer wrong"), Str("Bearer Bearer changeme")}
FewRows ==
    {[zero |-> 5, one |-> 5, null |-> 0], [zero |-> 6, one |-> 5, null |-> 1],
     [zero |-> 4, one |-> 3, null |-> 1], [zero |-> 10, one |-> 0, null |-> 0]}
FewThresholds == {0, 300, 500, 1000}
FewInputs ==
    {<<Num(39), Num(70), Num(70), None>>,
     <<Num(100), Num(95), Num(0), Num(10)>>,
     <<Num(70), Num(120), Num(70), None>>}
FewItems ==
    {Item(Num(1), Num(39), Num(70), Num(70), None),
     Item(Num(6), Num(70), Num(70), Num(100), Num(120))}

FewRequests ==
    FewInputs \cup {<<Str("abc"), Num(70), Num(70), None>>,
                    <<Num(70), Num(70), Num(70), Str("0")>>}
FewEnrollments ==
    {Item(Num(1), Num(39), Num(70), Num(70), Num(10)),
     Item(Num(2), None, Num(70), Num(70), None),
     Item(Num(3), Num(70), Num(120), Num(70), None)}
NoRows == [zero |-> 0, one |-> 0, null |-> 0]

Init ==
    /\ env \in {NoEnv, EnvStr("0.75")}
    /\ modelFile = NoModel
    /\ metaFile \in {Absent, Malformed}
    /\ predictor = NoPredictor
    /\ resp = NoCall
    /\ inflight = Idle

\* The calls that write nothing (predict, predict_batch, get_threshold, the
\* predict endpoints, export, and every call that fails) leave the artifacts
\* and the Predictor as they were, so what can follow them is what could
\* follow the call before them.  Every state of the artifacts is first
\* reached by the initial state or by a load, a training call or a
\* set_threshold that succeeded: the calls here are made from those states.
Entered ==
    /\ resp.op \in {"none", "load", "train_from_db", "retrain", "set_threshold"}
    /\ resp.out.ok

Next ==
    \/ Entered /\ LoadPredictor
    \/ Entered /\ PredictCall(FewInputs)
    \/ Entered /\ PredictBatchCall(FewItems)
    \/ Entered /\ TrainFromDbCall(FewRows)
    \/ Entered /\ RetrainCall(FewAuthorizations, FewRows)
    \/ Entered /\ UpdateThresholdCall(FewAuthorizations, FewThresholds)
    \/ Entered /\ GetThresholdCall(FewAuthorizations)
    \/ Entered /\ PredictEndpointCall(FewRequests)
    \/ Entered /\ PredictBatchEndpointCall(FewAuthorizations, FewEnrollments)
    \/ Entered /\ ExportCall(FewAuthorizations, FewRows \cup {NoRows})

Spec == Init /\ [][Next]_vars

-----------------------------------------------------------------------------
(* Claims on the artifacts over time, checked under Spec *)

\* what C1 says of one prediction r made by the Predictor p
LabelAgrees(r, p) ==
    /\ 0 <= r.probability /\ r.probability <= ProbOne
    /\ r.threshold_used = p.threshold
    /\ r.predicted_result \in {0, 1}
    /\ (r.predicted_result = 1) <=> (r.probability >= r.threshold_used)

\* C1: every successful predict, and every item predict_batch returns, has a
\* probability in [0,1], the threshold the Predictor resolved when it was
\* loaded as threshold_used, and predicted_result = 1 exactly when
\* probability >= threshold_used.
C1_LabelAgreesWithThreshold ==
    /\ (resp.op = "predict" /\ resp.out.ok) => LabelAgrees(resp.out, predictor)
    /\ (resp.op = "predict_batch" /\ resp.out.ok) =>
            \A k \in 1..Len(resp.out.results) :
                LabelAgrees(resp.out.results[k], predictor)

\* C1 witness: a predict whose probability equals the threshold passed, with
\* a threshold the metadata document no longer resolves to.
C1_Witness ==
    /\ resp.op = "predict" /\ resp.out.ok
    /\ resp.out.probability = resp.out.threshold_used
    /\ resp.out.predicted_result = 1
    /\ metaFile.kind = "json"
    /\ ResolveThreshold(env, Loaded(metaFile)).ok
    /\ ResolveThreshold(env, Loaded(metaFile)).value # resp.out.threshold_used

HasUserThreshold(file) ==
    file.kind = "json" /\ file.isdict /\ "user_threshold" \in DOMAIN file.doc

\* C4: a successful set_threshold persists the value it was given, a
\* successful training call keeps a persisted user_threshold as it was and
\* the retrain response reports it, and no other call writes the document.
C4_UserThresholdCarried ==
    [][/\ (resp'.op = "set_threshold" /\ resp'.out.ok) =>
            /\ HasUserThreshold(metaFile')
            /\ metaFile'.doc.user_threshold = Num(resp'.args[2])
       /\ (resp'.op \in {"retrain", "train_from_db"} /\ resp'.out.ok
                /\ HasUserThreshold(metaFile)) =>
            /\ HasUserThreshold(metaFile')
            /\ metaFile'.doc.user_threshold = metaFile.doc.user_threshold
            /\ resp'.op = "retrain" =>
                    resp'.out.user_threshold = metaFile.doc.user_threshold
       /\ ~(resp'.op \in {"set_threshold", "retrain", "train_from_db"} /\ resp'.out.ok) =>
            metaFile' = metaFile
      ]_vars

\* C4 witness: a retrain after a set_threshold(0.3) wrote a new document that
\* still holds 0.3, and reported it.
C4_Witness ==
    /\ resp.op = "retrain" /\ resp.out.ok
    /\ resp.out.user_threshold = Num(300)
    /\ HasUserThreshold(metaFile)
    /\ metaFile.doc.user_threshold = Num(300)
    /\ "generated_at" \in DOMAIN metaFile.doc
    /\ "user_threshold_set_at" \notin DOMAIN metaFile.doc

\* C15: without a model artifact, constructing a Predictor raises the
\* missing-model error, and the predict endpoint (for a request its schema
\* admits) and the predict_batch endpoint (for an authorized request) answer
\* 503, whatever the inputs and the metadata document.
C15_ModelNotFound ==
    /\ (resp.op = "load" /\ ~modelFile.exists) =>
            /\ ~resp.out.ok
            /\ resp.out.error = "FileNotFoundError"
    /\ (resp.op = "predict_endpoint" /\ ~modelFile.exists /\ resp.out.status # 422) =>
            resp.out.status = 503
    /\ (resp.op = "predict_batch_endpoint" /\ ~modelFile.exists
            /\ resp.out.status # 401) =>
            resp.out.status = 503

\* C15 witness: without a model artifact and with a metadata document that
\* holds a user_threshold, a predict request with marks at 120 was answered
\* 503.
C15_Witness ==
    /\ resp.op = "predict_endpoint"
    /\ ~modelFile.exists
    /\ HasUserThreshold(metaFile)
    /\ resp.args[2] = Num(120)
    /\ resp.out.status = 503

\* C16: a set_threshold with a value <= 0 or >= 1 fails (400 or 422 once the
\* request is authorized) and leaves the metadata document as it was, and a
\* set_threshold that succeeds writes a user_threshold strictly between 0 and
\* 1; so does every user_threshold the document ever holds.
C16_InvalidThreshold ==
    [][/\ (resp'.op = "set_threshold"
                /\ (resp'.args[2] <= 0 \/ resp'.args[2] >= 1000)) =>
            /\ ~resp'.out.ok
            /\ resp'.out.status \in {401, 400, 422}
            /\ resp'.args[1] = Str("Bearer changeme") => resp'.out.status \in {400, 422}
            /\ metaFile' = metaFile
       /\ (resp'.op = "set_threshold" /\ resp'.out.ok) =>
            /\ 0 < resp'.args[2] /\ resp'.args[2] < 1000
            /\ metaFile'.doc.user_threshold = Num(resp'.args[2])
       /\ HasUserThreshold(metaFile') =>
            /\ metaFile'.doc.user_threshold.t = "num"
            /\ 0 < metaFile'.doc.user_threshold.v
            /\ metaFile'.doc.user_threshold.v < 1000
      ]_vars

\* C16 witness: an authorized set_threshold(1) was refused over a document
\* that holds an earlier user_threshold.
C16_Witness ==
    /\ resp.op = "set_threshold"
    /\ resp.args = <<Str("Bearer changeme"), 1000>>
    /\ ~resp.out.ok
    /\ HasUserThreshold(metaFile)
    /\ metaFile.doc.user_threshold = Num(300)

\* C17: the recommended_threshold of the metadata document, whenever there is
\* one, is a number >= 0.6.
C17_RecommendedFloor ==
    (metaFile.kind = "json" /\ metaFile.isdict
        /\ "recommended_threshold" \in DOMAIN metaFile.doc) =>
        /\ metaFile.doc.recommended_threshold.t = "num"
        /\ metaFile.doc.recommended_threshold.v >= 600

\* C17 witness: a retrain whose F1-maximising threshold was 0.3 wrote a
\* recommended_threshold of 0.6 beside a user_threshold of 0.3.
C17_Witness ==
    /\ resp.op = "retrain" /\ resp.out.ok
    /\ metaFile.doc.coefficients = Fit1.cv_coefficients
    /\ Fit1.best_threshold = 300
    /\ metaFile.doc.recommended_threshold = Num(600)
    /\ HasUserThreshold(metaFile)
    /\ metaFile.doc.user_threshold = Num(300)

\* the calls behind verify_admin_token
AdminOps == {"retrain", "predict_batch_endpoint", "set_threshold", "get_threshold", "export"}

\* the token an Authorization header carries: what follows its "Bearer "
\* scheme, or the whole header when it has none
BearerToken(header) ==
    CASE header = "Bearer changeme" -> "changeme"
      [] header = "Bearer wrong" -> "wrong"
      [] header = "Bearer Bearer changeme" -> "Bearer changeme"
      [] OTHER -> header

\* C18: an admin call without an Authorization header, or with one whose
\* token is not the admin token, is answered 401 with nothing else in the
\* response, and the model artifact and the metadata document stay as they
\* were.
C18_AdminOnly ==
    [][(/\ resp'.op \in AdminOps
        /\ \/ resp'.args[1] = None
           \/ BearerToken(resp'.args[1].s) # "changeme") =>
            /\ resp'.out = Http(401)
            /\ modelFile' = modelFile
            /\ metaFile' = metaFile
      ]_vars

\* C24: with a model artifact that loads and no enrollment that has
\* attendance, marks and internal_score, an authorized predict_batch request
\* is answered 400.
C24_NoCompleteEnrollments ==
    (/\ resp.op = "predict_batch_endpoint"
     /\ resp.out.status # 401
     /\ NewPredictor(env, modelFile, metaFile).ok
     /\ \A k \in 1..Len(resp.args[2]) :
            \/ resp.args[2][k].attendance = None
            \/ resp.args[2][k].marks = None
            \/ resp.args[2][k].internal_score = None) =>
        resp.out.status = 400

\* C27: the predict request and the get_threshold request that follow a
\* successful set_threshold(v) use and report v, from the source
\* metadata:user, when PRED_THRESHOLD holds no valid override, and the
\* PRED_THRESHOLD value, from the source env, when it does.
C27_ThresholdTakesEffect ==
    [][(resp.op = "set_threshold" /\ resp.out.ok) =>
            LET expected == IF ValidOverride(EnvOverride) THEN EnvOverride.v
                            ELSE resp.args[2]
            IN  /\ (resp'.op = "predict_endpoint" /\ resp'.out.status = 200) =>
                        resp'.out.result.threshold_used = expected
                /\ resp'.op = "get_threshold" =>
                        /\ resp'.out.status \in {200, 401}
                        /\ resp'.out.status = 200 =>
                            /\ resp'.out.threshold = expected
                            /\ resp'.out.source =
                                    (IF ValidOverride(EnvOverride) THEN "env"
                                     ELSE "metadata:user")
      ]_vars

\* C27 witness: with PRED_THRESHOLD unset and a Predictor in memory that was
\* loaded under another threshold, a predict request used the 0.3 that
\* set_threshold persisted.
C27_Witness ==
    /\ resp.op = "predict_endpoint" /\ resp.out.status = 200
    /\ ~env.set
    /\ HasUserThreshold(metaFile)
    /\ metaFile.doc.user_threshold = Num(300)
    /\ "user_threshold_set_at" \in DOMAIN metaFile.doc
    /\ resp.out.result.threshold_used = 300
    /\ predictor.loaded /\ predictor.threshold # 300

\* C29: a successful set_threshold leaves every key of the metadata document
\* other than user_threshold and user_threshold_set_at as it was, adds no key
\* but these two and recommended_threshold, and writes recommended_threshold
\* only where the document had none.
C29_ThresholdWriteFrame ==
    [][(resp'.op = "set_threshold" /\ resp'.out.ok) =>
            LET old == IF metaFile.kind = "json" /\ metaFile.isdict
                       THEN metaFile.doc ELSE <<>>
                new == metaFile'.doc
            IN  /\ DOMAIN new = DOMAIN old \cup {"user_threshold", "user_threshold_set_at",
                                                 "recommended_threshold"}
                /\ \A key \in DOMAIN old \ {"user_threshold", "user_threshold_set_at"} :
                        new[key] = old[key]
                /\ "recommended_threshold" \notin DOMAIN old =>
                        new.recommended_threshold =
                            Num(IF resp'.args[2] > 600 THEN resp'.args[2] ELSE 600)
      ]_vars

\* C29 witness: a set_threshold(0.3) over a document written by training kept
\* its coefficients, its scaler and its recommended_threshold of 0.7.
C29_Witness ==
    /\ resp.op = "set_threshold" /\ resp.out.ok
    /\ resp.args[2] = 300
    /\ metaFile.doc.user_threshold = Num(300)
    /\ "coefficients" \in DOMAIN metaFile.doc
    /\ "scaler" \in DOMAIN metaFile.doc
    /\ "permutation_importance" \in DOMAIN metaFile.doc
    /\ metaFile.doc.recommended_threshold = Num(700)

\* C30: a training call that fails leaves the model artifact, the metadata
\* document and the Predictor in memory as they were, and a predict request
\* is answered after it as it was before it.
C30_FailedTrainingWritesNothing ==
    [][(resp'.op \in {"train_from_db", "retrain"} /\ ~resp'.out.ok) =>
            /\ modelFile' = modelFile
            /\ metaFile' = metaFile
            /\ predictor' = predictor
            /\ PredictEndpoint(<<Num(39), Num(70), Num(70), None>>,
                               env', modelFile', metaFile')
                    = PredictEndpoint(<<Num(39), Num(70), Num(70), None>>,
                                      env, modelFile, metaFile)
      ]_vars

\* C30 witness: a train_from_db over rows of a single class failed with a
\* trained model and a user_threshold in place.
C30_Witness ==
    /\ resp.op = "train_from_db" /\ ~resp.out.ok
    /\ resp.out.error = "ValueError" /\ resp.out.reason = "single class"
    /\ modelFile.exists
    /\ HasUserThreshold(metaFile)
    /\ "coefficients" \in DOMAIN metaFile.doc

-----------------------------------------------------------------------------
(* A retrain and a set_threshold under way at the same time, with loads     *)
(* between their steps: each read and each write of an artifact is a step   *)

\* a faulty variant of RetrainWriteModel, kept for comparison, that replaces the metadata document first
RetrainWriteMetadataFirst(Auths, Rows) ==
    /\ inflight.retrain.at = "idle"
    /\ \E authorization \in Auths, rows \in Rows, fit \in Fits :
        LET out == Retrain(authorization, rows, fit, metaFile)
            df == ToDataframeFromEnrollments(GetTrainingData(rows))
        IN  IF ~out.ok
            THEN /\ resp' = Call("retrain", <<authorization, rows>>,
                                 [k \in DOMAIN out \ {"trained"} |-> out[k]])
                 /\ UNCHANGED <<env, modelFile, metaFile, predictor, inflight>>
            ELSE /\ metaFile' = JsonFile(TrainingMetadata(df.value, fit))
                 /\ inflight' = [inflight EXCEPT !.retrain =
                        [at |-> "model_written", args |-> <<authorization, rows>>,
                         fit |-> fit, before |-> metaFile,
                         metadata |-> TrainingMetadata(df.value, fit)]]
                 /\ UNCHANGED <<env, modelFile, predictor, resp>>

\* retrain up to joblib.dump(calibrated_model, model_path): a refusal, or the
\* model artifact replaced while the new metadata is still in memory
RetrainWriteModel(Auths, Rows) ==
    /\ inflight.retrain.at = "idle"
    /\ \E authorization \in Auths, rows \in Rows, fit \in Fits :
        LET out == Retrain(authorization, rows, fit, metaFile)
            df == ToDataframeFromEnrollments(GetTrainingData(rows))
        IN  IF ~out.ok
            THEN /\ resp' = Call("retrain", <<authorization, rows>>,
                                 [k \in DOMAIN out \ {"trained"} |-> out[k]])
                 /\ UNCHANGED <<env, modelFile, metaFile, predictor, inflight>>
            ELSE /\ modelFile' = fit.model
                 /\ inflight' = [inflight EXCEPT !.retrain =
                        [at |-> "model_written", args |-> <<authorization, rows>>,
                         fit |-> fit, before |-> metaFile,
                         metadata |-> TrainingMetadata(df.value, fit)]]
                 /\ UNCHANGED <<env, metaFile, predictor, resp>>

\* _save_metadata reads the existing document
RetrainReadExisting ==
    /\ inflight.retrain.at = "model_written"
    /\ inflight' = [inflight EXCEPT
            !.retrain = [at |-> "existing_read", existing |-> metaFile] @@ @,
            !.overlap = @ \/ inflight.setter.at = "loaded"]
    /\ UNCHANGED <<env, modelFile, metaFile, predictor, resp>>

\* _save_metadata writes the new metadata, with the user_threshold of the
\* document it read, and retrain answers
RetrainWriteMetadata ==
    /\ inflight.retrain.at = "existing_read"
    /\ LET authorization == inflight.retrain.args[1]
           rows == inflight.retrain.args[2]
           existing == inflight.retrain.existing
           out == Retrain(authorization, rows, inflight.retrain.fit, existing)
           written == SaveMetadata(existing, inflight.retrain.metadata)
       IN  /\ metaFile' = JsonFile(written)
           /\ resp' = Call("retrain", <<authorization, rows>>,
                           [k \in DOMAIN out \ {"trained"} |-> out[k]])
           /\ inflight' = [inflight EXCEPT !.retrain = [at |-> "done"] @@ @]
    /\ UNCHANGED <<env, modelFile, predictor>>

\* update_threshold up to json.load(fp): a refusal, or the document read
SetThresholdRead(Auths, Thresholds) ==
    /\ inflight.setter.at = "idle"
    /\ \E authorization \in Auths, threshold \in Thresholds :
        LET out == UpdateThreshold(authorization, threshold)
        IN  IF ~out.ok
            THEN /\ resp' = Call("set_threshold", <<authorization, threshold>>, out)
                 /\ UNCHANGED <<env, modelFile, metaFile, predictor, inflight>>
            ELSE /\ inflight' = [inflight EXCEPT
                        !.setter = [at |-> "loaded", authorization |-> authorization,
                                    threshold |-> threshold, loaded |-> metaFile],
                        !.overlap = @ \/ inflight.retrain.at = "existing_read"]
                 /\ UNCHANGED <<env, modelFile, metaFile, predictor, resp>>

\* update_threshold sets its keys in the document it read, writes it and answers
SetThresholdWrite ==
    /\ inflight.setter.at = "loaded"
    /\ LET authorization == inflight.setter.authorization
           threshold == inflight.setter.threshold
       IN  /\ metaFile' = JsonFile(ThresholdDocument(threshold, inflight.setter.loaded))
           /\ resp' = Call("set_threshold", <<authorization, threshold>>,
                           UpdateThreshold(authorization, threshold))
           /\ inflight' = [inflight EXCEPT !.setter = [at |-> "done"] @@ @]
    /\ UNCHANGED <<env, modelFile, predictor>>

TwoAuthorizations == {Str("Bearer changeme"), Str("Bearer wrong")}

\* the artifacts an earlier training run left, with or without an override
TrainedBefore == JsonFile(TrainingMetadata([zero |-> 5, one |-> 5], Fit1))

InitConcurrent ==
    /\ env = NoEnv
    /\ modelFile = Model1
    /\ metaFile \in {TrainedBefore, JsonFile(ThresholdDocument(500, TrainedBefore))}
    /\ predictor = NoPredictor
    /\ resp = NoCall
    /\ inflight = Idle

NextConcurrent ==
    \/ RetrainWriteModel(TwoAuthorizations, FewRows)
    \/ RetrainReadExisting
    \/ RetrainWriteMetadata
    \/ SetThresholdRead(TwoAuthorizations, FewThresholds)
    \/ SetThresholdWrite
    \/ LoadPredictor

SpecConcurrent == InitConcurrent /\ [][NextConcurrent]_vars

\* both handlers have written and answered
BothDone == inflight.retrain.at = "done" /\ inflight.setter.at = "done"

\* the document holds the set user_threshold and the retrain's coefficients,
\* scaler and recommended_threshold
BothHeld ==
    /\ metaFile.kind = "json" /\ metaFile.isdict
    /\ Get(metaFile.doc, "user_threshold", None) = Num(inflight.setter.threshold)
    /\ \A k \in {"coefficients", "scaler", "recommended_threshold"} :
            Get(metaFile.doc, k, None) = inflight.retrain.metadata[k]

\* C25 as stated: after a retrain and a set_threshold have both completed,
\* in whatever order their reads and writes of the metadata document came,
\* the document holds the set user_threshold and the retrain's coefficients,
\* scaler and recommended_threshold.
C25_NoLostUpdate == BothDone => BothHeld

\* C25: after a retrain and a set_threshold have both completed, the document
\* holds the set user_threshold and the retrain's coefficients, scaler and
\* recommended_threshold when neither handler read the document between the
\* other's read and write of it.
C25_NoLostUpdateWhenSerial == (BothDone /\ ~inflight.overlap) => BothHeld

\* C25 witness: a set_threshold to 0.3 and a retrain that produced the
\* second fit have both completed over a document that held an override of
\* 0.5, neither inside the other's read-to-write window, and both are held.
C25_Witness ==
    /\ BothDone /\ ~inflight.overlap /\ BothHeld
    /\ inflight.setter.threshold = 300
    /\ inflight.retrain.fit = Fit2
    /\ Get(inflight.retrain.before.doc, "user_threshold", None) = Num(500)

\* C26: a Predictor loaded after retrain has replaced the model artifact and
\* before it has replaced the metadata document holds the new model with the
\* scaler, coefficients and recommended threshold of the document the
\* previous run left.
C26_LoadBetweenWrites ==
    [][(/\ inflight.retrain.at \in {"model_written", "existing_read"}
        /\ inflight' = inflight
        /\ resp'.op = "load") =>
            /\ resp'.out.ok
            /\ predictor'.loaded
            /\ predictor'.model = inflight.retrain.fit.model
            /\ \A k \in {"coefficients", "scaler", "recommended_threshold"} :
                    MetaGet(predictor'.metadata, k)
                        = MetaGet(Loaded(inflight.retrain.before), k)
      ]_vars

\* C26 witness: with retrain between its two writes, a loaded Predictor
\* holds the second model with the first run's coefficients, scaler and
\* recommended threshold.
C26_Witness ==
    /\ inflight.retrain.at \in {"model_written", "existing_read"}
    /\ resp.op = "load" /\ resp.out.ok
    /\ predictor.loaded
    /\ predictor.model = Model2
    /\ MetaGet(predictor.metadata, "coefficients") = Fit1.cv_coefficients
    /\ MetaGet(predictor.metadata, "scaler")
            = [mean |-> Fit1.base.mean, scale |-> Fit1.base.scale]
    /\ MetaGet(predictor.metadata, "recommended_threshold") = Num(RecommendedFloor)

====
